---- MODULE Spec2Model ----
(***************************************************************************)
(* A model of the site scoring and ranking pipeline of terralink-ai:       *)
(* backend/gee_queries.py (class GEEQueryAgent) and the callers of         *)
(* query_solar_sites in backend/app.py.                                    *)
(*                                                                         *)
(* Numbers.  Python floats are modelled as fixed-point integers counted in *)
(* units of 10^-5 (One = 1.0), fine enough for round(x, 4), round(x, 2)    *)
(* and round(x, 1) to be real roundings.  The score of a record, the id    *)
(* and num_samples are plain integers, as in the code.                     *)
(*                                                                         *)
(* Strings.  A Python str is a sequence of one-character strings, so that  *)
(* lower() and strip() are computed.  None is the sentinel below.  The     *)
(* 'location' of a record, "lat, lon" printed with four decimals, is the   *)
(* pair of the two numbers so printed.                                     *)
(***************************************************************************)
EXTENDS Integers, Sequences, FiniteSets, TLC

\* ------------------------------------------------------------------ bounds

\* The largest num_samples a call is made with (requests range over 0..MaxSamples).
MaxSamples == 2

\* The number of states of the process-wide random generator.
RngPeriod == 49

\* ----------------------------------------------------------------- numbers

One == 10^5

\* The decimal literal whole.hundredths, e.g. F(31, 50) is 31.50.
F(whole, hundredths) == whole * One + hundredths * (One \div 100)

Min(a, b) == IF a <= b THEN a ELSE b

Max(a, b) == IF a >= b THEN a ELSE b

Abs(a) == IF a >= 0 THEN a ELSE -a

\* x rounded to the nearest multiple of q, a tie going to the even multiple.
RoundTo(x, q) ==
    LET lo == (x \div q) * q
        r  == x - lo
    IN  IF 2 * r < q THEN lo
        ELSE IF 2 * r > q THEN lo + q
        ELSE IF (lo \div q) % 2 = 0 THEN lo ELSE lo + q

\* Python's round(x, ndigits) on a float.
Round(x, ndigits) == RoundTo(x, One \div (10^ndigits))

\* Python's int(x) on a float: truncation toward zero, giving a plain integer.
PyInt(x) == IF x >= 0 THEN x \div One ELSE -((-x) \div One)

\* dict.get(key, default)
DictGet(d, key, default) == IF key \in DOMAIN d THEN d[key] ELSE default

\* ----------------------------------------------------------------- strings

None == <<"None">>

UpperCase == <<"A","B","C","D","E","F","G","H","I","J","K","L","M",
               "N","O","P","Q","R","S","T","U","V","W","X","Y","Z">>

LowerCase == <<"a","b","c","d","e","f","g","h","i","j","k","l","m",
               "n","o","p","q","r","s","t","u","v","w","x","y","z">>

Whitespace == {" ", "\t", "\n"}

\* The lower-case form of every upper-case letter.
LowerOf == [c \in {UpperCase[i] : i \in 1..Len(UpperCase)} |->
              LowerCase[CHOOSE i \in 1..Len(UpperCase) : UpperCase[i] = c]]

\* str.lower()
Lower(s) == [i \in 1..Len(s) |-> DictGet(LowerOf, s[i], s[i])]

RECURSIVE LStrip(_)
LStrip(s) == IF s # <<>> /\ Head(s) \in Whitespace THEN LStrip(Tail(s)) ELSE s

RECURSIVE RStrip(_)
RStrip(s) ==
    IF s # <<>> /\ s[Len(s)] \in Whitespace
    THEN RStrip(SubSeq(s, 1, Len(s) - 1))
    ELSE s

\* Only the leading whitespace removed: str.lstrip().
StripLeft(s) == LStrip(s)

\* str.strip()
Strip(s) == RStrip(LStrip(s))

\* Python's truth value of a region argument: None and "" are falsy.
Falsy(region_name) == region_name = None \/ region_name = <<>>

\* ----------------------------------------------------------------- regions

texas == <<"t","e","x","a","s">>

california == <<"c","a","l","i","f","o","r","n","i","a">>

nevada == <<"n","e","v","a","d","a">>

arizona == <<"a","r","i","z","o","n","a">>

new_mexico == <<"n","e","w"," ","m","e","x","i","c","o">>

colorado == <<"c","o","l","o","r","a","d","o">>

utah == <<"u","t","a","h">>

\* The literal 'Texas' the code substitutes for a falsy region.
Texas == <<"T","e","x","a","s">>

\* ee.Geometry.Rectangle([west, south, east, north])
Rectangle(west, south, east, north) ==
    [type |-> "Rectangle", coords |-> <<west, south, east, north>>]

\* The fallback descriptor {'center': (lat, lon), 'size': size}
Descriptor(lat, lon, size) == [center |-> <<lat, lon>>, size |-> size]

\* self.region_bounds as __init__ builds it, given the flag it has just set.
region_bounds(available) ==
    IF available
    THEN texas      :> Rectangle(-F(107, 0), F(25, 80), -F(93, 50), F(36, 50))
      @@ california :> Rectangle(-F(125, 0), F(32, 0), -F(114, 0), F(42, 0))
      @@ nevada     :> Rectangle(-F(120, 0), F(35, 0), -F(114, 0), F(42, 0))
      @@ arizona    :> Rectangle(-F(115, 0), F(31, 0), -F(109, 0), F(37, 0))
      @@ new_mexico :> Rectangle(-F(109, 0), F(31, 0), -F(103, 0), F(37, 0))
      @@ colorado   :> Rectangle(-F(109, 0), F(37, 0), -F(102, 0), F(41, 0))
      @@ utah       :> Rectangle(-F(114, 0), F(37, 0), -F(109, 0), F(42, 0))
    ELSE texas      :> Descriptor(F(31, 50), -F(99, 50), 5)
      @@ california :> Descriptor(F(37, 0), -F(120, 0), 5)
      @@ nevada     :> Descriptor(F(38, 50), -F(116, 50), 5)
      @@ arizona    :> Descriptor(F(33, 50), -F(111, 50), 5)
      @@ new_mexico :> Descriptor(F(34, 50), -F(106, 0), 5)
      @@ colorado   :> Descriptor(F(39, 0), -F(105, 50), 4)
      @@ utah       :> Descriptor(F(39, 50), -F(111, 50), 4)

\* get_region_geometry(region_name); both branches of its if are the same lookup.
get_region_geometry(available, region_name) ==
    LET name       == IF Falsy(region_name) THEN texas ELSE region_name
        region_key == Strip(Lower(name))
    IN  DictGet(region_bounds(available), region_key, region_bounds(available)[texas])

\* The local table region_data of _generate_mock_sites.
region_data ==
       texas      :> [center |-> <<F(31, 50), -F(99, 50)>>,  irr_base |-> F(6, 20), slope_avg |-> F(2, 0)]
    @@ california :> [center |-> <<F(37, 0), -F(120, 0)>>,   irr_base |-> F(6, 80), slope_avg |-> F(4, 0)]
    @@ nevada     :> [center |-> <<F(38, 50), -F(116, 50)>>, irr_base |-> F(7, 0),  slope_avg |-> F(3, 0)]
    @@ arizona    :> [center |-> <<F(33, 50), -F(111, 50)>>, irr_base |-> F(7, 20), slope_avg |-> F(2, 50)]
    @@ new_mexico :> [center |-> <<F(34, 50), -F(106, 0)>>,  irr_base |-> F(6, 90), slope_avg |-> F(2, 20)]
    @@ colorado   :> [center |-> <<F(39, 0), -F(105, 50)>>,  irr_base |-> F(5, 80), slope_avg |-> F(5, 0)]
    @@ utah       :> [center |-> <<F(39, 50), -F(111, 50)>>, irr_base |-> F(6, 50), slope_avg |-> F(4, 50)]

\* The region lookup of _generate_mock_sites.
mock_region_info(region_name) ==
    LET name       == IF Falsy(region_name) THEN Texas ELSE region_name
        region_key == Strip(Lower(name))
    IN  DictGet(region_data, region_key, region_data[texas])

\* ------------------------------------------------------ the random generator

(* Python's module-level random generator: a deterministic generator whose   *)
(* hidden state every draw advances.  The code never seeds it, so a process  *)
(* starts in any state.  A state yields one of three outcomes (low, middle,  *)
(* high); every draw maps the outcome into its own range.                    *)
RngNext(s) == (43 * s + 13) % RngPeriod

RngOutcome(s) == (s \div 3) % 3

\* The states the generator goes through in n draws from state s: n + 1 of
\* them, the first the state of the first draw and the last the state left.
RECURSIVE RngStream(_, _)
RngStream(s, n) == IF n <= 0 THEN <<s>> ELSE <<s>> \o RngStream(RngNext(s), n - 1)

\* random.random(): 0.0, 0.37 or 0.99999, a value of [0, 1).
Random(s) == <<0, F(0, 37), One - 1>>[RngOutcome(s) + 1]

\* A standard normal deviate: -6.0, 0.7321 or 6.0.
StdNormal(s) == <<-F(6, 0), 73210, F(6, 0)>>[RngOutcome(s) + 1]

\* random.gauss(mu, sigma), sigma a multiple of 0.1.
Gauss(mu, sigma, s) == mu + ((sigma \div (One \div 10)) * StdNormal(s)) \div 10

\* random.uniform(a, b), b - a a whole number.
Uniform(a, b, s) == a + ((b - a) \div One) * Random(s)

\* random.choice(seq)
Choice(seq, s) == seq[(Random(s) * Len(seq)) \div One + 1]

\* ---------------------------------------------------------------- ranking

\* x placed in front of the elements that score the same: a descending sort
\* that is not stable.
InsertBeforeEqual(x, s) ==
    LET k == Cardinality({j \in 1..Len(s) : s[j].score > x.score})
    IN  SubSeq(s, 1, k) \o <<x>> \o SubSeq(s, k + 1, Len(s))

\* x placed behind every element of the descending sequence s that scores >= x.
InsertByScore(x, s) ==
    LET k == Cardinality({j \in 1..Len(s) : s[j].score >= x.score})
    IN  SubSeq(s, 1, k) \o <<x>> \o SubSeq(s, k + 1, Len(s))

\* The list left as it was built: the sort forgotten.
KeepOrder(sites) == sites

\* sites.sort(key=lambda x: x['score'], reverse=True): stable, descending.
RECURSIVE SortByScore(_)
SortByScore(sites) ==
    IF Len(sites) = 0 THEN <<>>
    ELSE InsertByScore(sites[Len(sites)], SortByScore(SubSeq(sites, 1, Len(sites) - 1)))

\* ------------------------------------------------------- synthetic sampling

\* The draws one iteration of the generating loop makes: lat, lon, irradiance,
\* slope, noise, elevation, land cover, protected distance.
DrawsPerSite == 8

land_covers == <<"grassland", "shrubland", "cropland", "barren">>

\* The synthetic score without its last clamp to [50, 100].
mock_score_unclamped(irradiance, slope, s) ==
    PyInt(Max(0, Min(F(100, 0), (irradiance * 5) + (F(45, 0) - slope)))
          + Gauss(0, F(5, 0), s))

\* The synthetic score with min and max swapped in the clamp before the
\* noise: min(0, max(100, score)).
mock_score_swapped_clamp(irradiance, slope, s) ==
    LET raw     == (irradiance * 5) + (F(45, 0) - slope)
        clamped == Min(0, Max(F(100, 0), raw))
        noisy   == clamped + Gauss(0, F(5, 0), s)
    IN  PyInt(Max(F(50, 0), Min(F(100, 0), noisy)))

\* The score of one synthetic site from its clamped irradiance and slope and
\* the generator state of the noise draw.
mock_score(irradiance, slope, s) ==
    LET raw     == (irradiance * 5) + (F(45, 0) - slope)
        clamped == Max(0, Min(F(100, 0), raw))
        noisy   == clamped + Gauss(0, F(5, 0), s)
    IN  PyInt(Max(F(50, 0), Min(F(100, 0), noisy)))

\* The record one iteration of the loop of _generate_mock_sites appends, its
\* id given; d[1], ..., d[8] are the generator's states at the eight draws of
\* the iteration.
mock_record(id, region_info, d) ==
    LET center     == region_info.center
        lat        == center[1] + (Random(d[1]) - One \div 2) * 5
        lon        == center[2] + (Random(d[2]) - One \div 2) * 5
        irr0       == Gauss(region_info.irr_base, F(0, 80), d[3])
        irradiance == Max(F(4, 50), Min(F(8, 0), irr0))
        slope0     == Abs(Gauss(region_info.slope_avg, F(2, 50), d[4]))
        slope      == Min(F(15, 0), slope0)
        score      == mock_score(irradiance, slope, d[5])
        elevation  == Uniform(F(100, 0), F(2000, 0), d[6])
    IN  [id         |-> id,
         lat        |-> Round(lat, 4),
         lon        |-> Round(lon, 4),
         location   |-> <<Round(lat, 4), Round(lon, 4)>>,
         score      |-> score,
         irradiance |-> Round(irradiance, 2),
         slope      |-> Round(slope, 2),
         metrics    |-> [irradiance |-> Round(irradiance, 2),
                         slope      |-> Round(slope, 2),
                         elevation  |-> Round(elevation, 1),
                         land_cover |-> Choice(land_covers, d[7]),
                         protected_distance |->
                             Round(Uniform(F(5, 0), F(50, 0), d[8]), 1)]]

\* The record numbered by the loop index itself: 'id': i.
mock_site_zero_based(i, region_info, d) == mock_record(i, region_info, d)

\* The iteration for index i of range(num_samples): 'id': i + 1.
mock_site(i, region_info, d) == mock_record(i + 1, region_info, d)

\* The loop run over range(1, num_samples): one iteration short.
mock_sites_loop_short(region_info, num_samples, stream) ==
    [k \in 1..(num_samples - 1) |->
        mock_record(k + 1, region_info,
                    SubSeq(stream, DrawsPerSite * (k - 1) + 1, DrawsPerSite * k))]

\* The list the loop has built when it ends, before it is sorted:
\* range(num_samples) is empty for num_samples <= 0.  `stream` holds the
\* generator's states from the first draw of the call on.
mock_sites_loop(region_info, num_samples, stream) ==
    [k \in 1..num_samples |->
        mock_site(k - 1, region_info,
                  SubSeq(stream, DrawsPerSite * (k - 1) + 1, DrawsPerSite * k))]

mock_sites_generated(region_name, num_samples, stream) ==
    mock_sites_loop(mock_region_info(region_name), num_samples, stream)

\* The list _generate_mock_sites returns, the generator's state after it and
\* the region entry it used.
mock_sites_return(region_name, num_samples, stream) ==
    [sites       |-> SortByScore(mock_sites_generated(region_name, num_samples, stream)),
     rng         |-> stream[Len(stream)],
     region_info |-> mock_region_info(region_name)]

\* _generate_mock_sites(region_name, num_samples) from generator state s.
generate_mock_sites(region_name, num_samples, s) ==
    mock_sites_return(region_name, num_samples,
                      RngStream(s, DrawsPerSite * Max(0, num_samples)))

\* ---------------------------------------------------------------- backend

\* A property value of a backend feature: a number, or a JSON null.
Num(x) == [num |-> TRUE, v |-> x]

Null == [num |-> FALSE, v |-> 0]

\* The features the backend may put in the answer of getInfo().  Property
\* 'surface_solar_radiation_downwards' is counted in J/m^2, all others in
\* units of 10^-5; coordinates are <<lon, lat>>.
FeatureKinds ==
    { \* every property present
      [geometry   |-> [coordinates |-> <<-9912346, 3156785>>],
       properties |-> [constant |-> Num(7325000), slope |-> Num(314159),
                       surface_solar_radiation_downwards |-> Num(912345),
                       elevation |-> Num(51234000)]],
      \* no property at all: every default of the code applies
      [geometry   |-> [coordinates |-> <<-F(100, 0), F(30, 0)>>],
       properties |-> [x \in {} |-> Null]],
      \* a score below 0 and a negative slope reading
      [geometry   |-> [coordinates |-> <<-F(98, 50), F(33, 25)>>],
       properties |-> [constant |-> Num(-F(5, 0)), slope |-> Num(-F(1, 50))]],
      \* a score above 100
      [geometry   |-> [coordinates |-> <<-F(101, 0), F(29, 75)>>],
       properties |-> [constant |-> Num(F(150, 0)), slope |-> Num(0)]],
      \* a null score
      [geometry   |-> [coordinates |-> <<-F(99, 0), F(31, 0)>>],
       properties |-> [constant |-> Null]] }

\* What the backend does in one attempt: it raises while the query is set up
\* (lines 59-89), raises in getInfo() (line 92), answers without a 'features'
\* entry (line 92 raises KeyError), or answers with features, at most
\* num_samples of them.
BackendOutcomes(num_samples) ==
    { [kind |-> "raise_setup",   exc |-> "EEException", features |-> <<>>],
      [kind |-> "raise_getInfo", exc |-> "EEException", features |-> <<>>],
      [kind |-> "raise_getInfo", exc |-> "KeyError",    features |-> <<>>] }
    \cup { [kind |-> "features", exc |-> "none", features |-> fs] :
             fs \in UNION { [1..k -> FeatureKinds] : k \in 0..Max(0, num_samples) } }

NoBackend == [kind |-> "none", exc |-> "none", features |-> <<>>]

\* The exception building a record from this feature raises, or "none".
feature_error(feature) ==
    IF "geometry" \notin DOMAIN feature \/ "properties" \notin DOMAIN feature
    THEN "KeyError"
    ELSE IF \E name \in DOMAIN feature.properties : ~feature.properties[name].num
    THEN "TypeError"
    ELSE "none"

\* 'score': int(min(100, max(0, raw_score)))
backend_score(raw_score) == PyInt(Min(F(100, 0), Max(0, raw_score)))

\* value / 3600000 * 24 of a value in J/m^2, in units of 10^-5.
to_kwh_per_day(value) == (value * 2) \div 3

\* The record the loop of query_solar_sites appends for a feature, its id
\* given.
feature_record(id, feature) ==
    LET coords     == feature.geometry.coordinates
        props      == feature.properties
        raw_score  == DictGet(props, "constant", Num(F(50, 0))).v
        irradiance == Round(to_kwh_per_day(
                          DictGet(props, "surface_solar_radiation_downwards", Num(6)).v), 2)
        slope      == Round(DictGet(props, "slope", Num(F(2, 0))).v, 2)
    IN  [id         |-> id,
         lat        |-> Round(coords[2], 4),
         lon        |-> Round(coords[1], 4),
         location   |-> <<Round(coords[2], 4), Round(coords[1], 4)>>,
         score      |-> backend_score(raw_score),
         irradiance |-> irradiance,
         slope      |-> slope,
         metrics    |-> [irradiance |-> irradiance,
                         slope      |-> slope,
                         elevation  |-> Round(DictGet(props, "elevation", Num(F(500, 0))).v, 1)]]

\* The record numbered by the index of enumerate itself: 'id': i.
site_from_feature_zero_based(i, feature) == feature_record(i, feature)

\* The record appended for feature number i (0-based) of the answer:
\* 'id': i + 1.
site_from_feature(i, feature) == feature_record(i + 1, feature)

\* A try block that skips a feature it cannot read and returns what it has
\* built, an empty list when the backend raised.
try_backend_partial(region_name, num_samples, backend) ==
    LET good == SelectSeq(backend.features, LAMBDA f : feature_error(f) = "none")
    IN  [raised |-> "none",
         sites  |-> SortByScore([k \in 1..Len(good) |-> site_from_feature(k - 1, good[k])]),
         region |-> get_region_geometry(TRUE, region_name)]

\* The body of the try block of query_solar_sites: the exception it raises
\* ("none" when it returns) and the list it returns.
try_backend(region_name, num_samples, backend) ==
    LET region   == get_region_geometry(TRUE, region_name)
        features == backend.features
        errors   == {k \in 1..Len(features) : feature_error(features[k]) # "none"}
        first    == CHOOSE k \in errors : \A j \in errors : k <= j
    IN  IF backend.kind # "features"
        THEN [raised |-> backend.exc, sites |-> <<>>, region |-> region]
        ELSE IF errors # {}
        THEN [raised |-> feature_error(features[first]), sites |-> <<>>, region |-> region]
        ELSE [raised |-> "none",
              sites  |-> SortByScore([k \in 1..Len(features) |->
                                         site_from_feature(k - 1, features[k])]),
              region |-> region]

\* A handler as narrow as the one of analyze (app.py:85): `except ValueError`.
handler_catches_ValueError(exc) == exc = "ValueError"

\* The classes `except Exception` catches, among those that can be raised.
handler_catches(exc) == exc \in {"EEException", "KeyError", "TypeError", "ValueError"}

\* The check of the flag left out: every call attempts the backend.
attempts_backend_always(available) == TRUE

\* `if not self.gee_available` (line 54): whether a call attempts the backend.
attempts_backend(available) == available

\* __init__: the flag after the probe ee.Initialize() succeeded or raised.
probe_flag(probe_ok) == IF probe_ok THEN TRUE ELSE FALSE

\* ------------------------------------------------------------------ state

VARIABLES
    gee_available,  \* self.gee_available of the one GEEQueryAgent (app.py:12)
    probes,         \* how often ee.Initialize() has been called
    rng,            \* the state of the process-wide random generator
    pc,             \* "idle", or "returned" while a caller holds a result
    call,           \* the call in progress: operation and arguments
    trace,          \* what the call did: backend attempts, generator runs
    result          \* what the call gave its caller

vars == <<gee_available, probes, rng, pc, call, trace, result>>

\* The region arguments callers pass: None, '', '  ', 'Texas', ' Colorado ',
\* 'UTAH\n', 'New Mexico', 'california', 'Nevada', 'ARIZONA', 'Unknownistan'.
RegionInputs ==
    { None,
      <<>>,
      <<" ", " ">>,
      <<"T","e","x","a","s">>,
      <<" ","C","o","l","o","r","a","d","o"," ">>,
      <<"U","T","A","H","\n">>,
      <<"N","e","w"," ","M","e","x","i","c","o">>,
      <<"c","a","l","i","f","o","r","n","i","a">>,
      <<"N","e","v","a","d","a">>,
      <<"A","R","I","Z","O","N","A">>,
      <<"U","n","k","n","o","w","n","i","s","t","a","n">> }

\* The counts callers request.
SampleCounts == 0..MaxSamples

\* The list agent_2_discover_datasets returns for 'solar' and the one it
\* returns for 'wind' (agent_system.py:222-302), each dataset given by its
\* name.
solar_datasets ==
    <<"Solar Irradiance", "Elevation/Slope", "Land Cover", "Protected Areas">>

wind_datasets == <<"Wind Speed", "Elevation/Slope">>

\* The datasets arguments callers pass: [] (predict, app.py:133) and the list
\* of agent 2 (analyze, app.py:67).
DatasetInputs == {<<>>, solar_datasets}

NoCall == [op |-> "none", region_name |-> None, datasets |-> <<>>, num_samples |-> 0,
           backend |-> NoBackend]

\* No region resolved.
NoRegion == [type |-> "none"]

NoTrace == [backend_attempts |-> 0, mock_runs |-> 0, path |-> "none",
            region |-> NoRegion, region_info |-> NoRegion]

NoResult == [status |-> "none", exc |-> "none", sites |-> <<>>]

\* The state once app.py has constructed its agent: the probe has run once and
\* has set the flag; the random generator, never seeded, is in any state.
Init ==
    /\ \E probe_ok \in BOOLEAN : gee_available = probe_flag(probe_ok)
    /\ probes = 1
    /\ rng \in 0..(RngPeriod - 1)
    /\ pc = "idle"
    /\ call = NoCall
    /\ trace = NoTrace
    /\ result = NoResult

\* The end of query_solar_sites: `tried` is what the try block did (looked at
\* only when the backend is attempted) and `mock` what _generate_mock_sites
\* gives from generator state s (looked at only when it runs).  The value is
\* what the call did, what it gives its caller and the generator's state after.
query_outcome(attempt, tried, mock, s) ==
    LET failed     == attempt /\ tried.raised # "none"
        fallback   == failed /\ handler_catches(tried.raised)
        propagates == failed /\ ~handler_catches(tried.raised)
        uses_mock  == ~attempt \/ fallback
    IN  [trace  |-> [backend_attempts |-> IF attempt THEN 1 ELSE 0,
                     mock_runs        |-> IF uses_mock THEN 1 ELSE 0,
                     path             |-> IF ~attempt THEN "mock"
                                          ELSE IF fallback THEN "fallback"
                                          ELSE IF propagates THEN "error"
                                          ELSE "backend",
                     region           |-> IF attempt THEN tried.region ELSE NoRegion,
                     region_info      |-> IF uses_mock THEN mock.region_info
                                          ELSE NoRegion],
         result |-> IF propagates
                    THEN [status |-> "raised", exc |-> tried.raised, sites |-> <<>>]
                    ELSE [status |-> "returned", exc |-> "none",
                          sites  |-> IF uses_mock THEN mock.sites ELSE tried.sites],
         rng    |-> IF uses_mock THEN mock.rng ELSE s]

\* A body that takes an empty datasets list to mean there is nothing to ask
\* the backend for, and goes to the generator.
run_query_by_datasets(available, s, region_name, datasets, num_samples, backend) ==
    LET name == IF Falsy(region_name) THEN Texas ELSE region_name
    IN  query_outcome(attempts_backend(available) /\ Len(datasets) > 0,
                      try_backend(name, num_samples, backend),
                      generate_mock_sites(name, num_samples, s),
                      s)

\* The body of query_solar_sites(region_name, datasets, num_samples) for an
\* agent whose flag is `available`, the generator being in state s.
run_query(available, s, region_name, datasets, num_samples, backend) ==
    LET name == IF Falsy(region_name) THEN Texas ELSE region_name
    IN  query_outcome(attempts_backend(available),
                      try_backend(name, num_samples, backend),
                      generate_mock_sites(name, num_samples, s),
                      s)

\* A call that, once its backend attempt has failed, marks the backend
\* unavailable for the calls after it.
query_solar_sites_disabling(region_name, datasets, num_samples, backend) ==
    /\ pc = "idle"
    /\ \E out \in {run_query(gee_available, rng, region_name, datasets,
                              num_samples, backend)} :
          /\ pc' = "returned"
          /\ call' = [op |-> "query_solar_sites", region_name |-> region_name,
                      datasets |-> datasets, num_samples |-> num_samples,
                      backend |-> backend]
          /\ trace' = out.trace
          /\ result' = out.result
          /\ rng' = out.rng
          /\ gee_available' = (gee_available /\ out.trace.path # "fallback")
    /\ UNCHANGED probes

\* query_solar_sites(region_name, datasets, num_samples), the whole call; the
\* backend's behaviour in it is `backend`.
query_solar_sites(region_name, datasets, num_samples, backend) ==
    /\ pc = "idle"
    /\ \E out \in {run_query(gee_available, rng, region_name, datasets,
                              num_samples, backend)} :
          /\ pc' = "returned"
          /\ call' = [op |-> "query_solar_sites", region_name |-> region_name,
                      datasets |-> datasets, num_samples |-> num_samples,
                      backend |-> backend]
          /\ trace' = out.trace
          /\ result' = out.result
          /\ rng' = out.rng
    /\ UNCHANGED <<gee_available, probes>>

\* A caller's request: analyze (app.py:80) and predict (app.py:131) call
\* query_solar_sites.  analyze passes the datasets of agent 2 and answers a
\* request without a region itself (app.py:70); predict passes [].  With
\* the flag false ee was never initialised, and an attempt on the backend
\* could only raise.
Query ==
    /\ pc = "idle"
    /\ \E region_name \in RegionInputs, num_samples \in SampleCounts :
          \E datasets \in IF Falsy(region_name) THEN {<<>>} ELSE DatasetInputs :
              \E backend \in IF gee_available
                             THEN BackendOutcomes(num_samples)
                             ELSE {[kind |-> "raise_setup", exc |-> "EEException",
                                    features |-> <<>>]} :
                  query_solar_sites(region_name, datasets, num_samples, backend)

\* A call of get_region_geometry(region_name) on the agent.
ResolveRegion ==
    /\ pc = "idle"
    /\ \E region_name \in RegionInputs :
          /\ call' = [op |-> "get_region_geometry", region_name |-> region_name,
                      num_samples |-> 0, backend |-> NoBackend]
          /\ trace' = [NoTrace EXCEPT
                         !.region = get_region_geometry(gee_available, region_name)]
    /\ result' = [status |-> "returned", exc |-> "none", sites |-> <<>>]
    /\ pc' = "returned"
    /\ UNCHANGED <<gee_available, probes, rng>>

\* A direct call of _generate_mock_sites(region_name, num_samples), as a test
\* of the generator makes it: calls follow one another in one process, each
\* overwriting what the one before returned.
generate_mock_sites_call(region_name, num_samples) ==
    \E out \in {generate_mock_sites(region_name, num_samples, rng)} :
        /\ call' = [op |-> "generate_mock_sites", region_name |-> region_name,
                    num_samples |-> num_samples, backend |-> NoBackend]
        /\ trace' = [NoTrace EXCEPT !.mock_runs = 1, !.path = "mock",
                                    !.region_info = out.region_info]
        /\ result' = [status |-> "returned", exc |-> "none", sites |-> out.sites]
        /\ rng' = out.rng
        /\ pc' = "returned"
        /\ UNCHANGED <<gee_available, probes>>

MockCall ==
    \E region_name \in RegionInputs, num_samples \in SampleCounts :
        generate_mock_sites_call(region_name, num_samples)

\* The caller turns the list into its response and drops it: nothing of a
\* request outlives it but the flag and the generator's state.
Respond ==
    /\ pc = "returned"
    /\ pc' = "idle"
    /\ call' = NoCall
    /\ trace' = NoTrace
    /\ result' = NoResult
    /\ UNCHANGED <<gee_available, probes, rng>>

Next == Query \/ ResolveRegion \/ Respond

Spec == Init /\ [][Next]_vars

\* The generator called directly, call after call.
SpecMock == Init /\ [][MockCall]_vars

\* ------------------------------------------------------- the scorers alone

\* Clamped irradiance values (kWh/m2/day) a synthetic site can have, the two
\* limits 4.5 and 8.0 among them.
IrradianceInputs == {F(4, 50), F(5, 17), F(6, 20), F(6, 79), F(8, 0)}

\* Clamped slope values (degrees) a synthetic site can have, the two limits
\* 0 and 15 among them.
SlopeInputs == {0, F(2, 0), F(3, 14), F(13, 20), F(15, 0)}

\* Values the backend can return in property 'constant': below 0, whole,
\* with a fraction below, at and above one half, above 100.
RawScoreInputs ==
    {-F(5, 0), -F(0, 60), 0, F(49, 50), F(50, 0), F(69, 90), F(73, 25),
     F(99, 99), F(100, 0), F(150, 0)}

\* Lines 167-171 of _generate_mock_sites run on their own for one site: the
\* score from the site's clamped irradiance and slope, the noise drawn from
\* the process-wide generator.
mock_score_call(irradiance, slope) ==
    /\ call' = [op |-> "mock_score", region_name |-> None, num_samples |-> 0,
                backend |-> NoBackend, irradiance |-> irradiance,
                slope |-> slope, noise |-> Gauss(0, F(5, 0), rng)]
    /\ result' = [status |-> "returned", exc |-> "none", sites |-> <<>>,
                  score |-> mock_score(irradiance, slope, rng)]
    /\ rng' = RngNext(rng)
    /\ pc' = "returned"
    /\ UNCHANGED <<gee_available, probes, trace>>

ScoreMock ==
    \E irradiance \in IrradianceInputs, slope \in SlopeInputs :
        mock_score_call(irradiance, slope)

\* Lines 99 and 106 of query_solar_sites run on their own for one feature.
backend_score_call(raw_score) ==
    /\ call' = [op |-> "backend_score", region_name |-> None, num_samples |-> 0,
                backend |-> NoBackend, raw_score |-> raw_score]
    /\ result' = [status |-> "returned", exc |-> "none", sites |-> <<>>,
                  score |-> backend_score(raw_score)]
    /\ pc' = "returned"
    /\ UNCHANGED <<gee_available, probes, rng, trace>>

ScoreBackend == \E raw_score \in RawScoreInputs : backend_score_call(raw_score)

NextScore == ScoreMock \/ ScoreBackend

\* The two scorers called directly, call after call.
SpecScore == Init /\ [][NextScore]_vars

\* ------------------------------------------------ one request, two datasets

\* The region arguments of the paired calls: None, 'UTAH\n', 'Unknownistan'.
PairRegions ==
    { None,
      <<"U","T","A","H","\n">>,
      <<"U","n","k","n","o","w","n","i","s","t","a","n">> }

\* Pairs of different datasets arguments.
DatasetPairs ==
    { <<<<>>, solar_datasets>>,
      <<solar_datasets, wind_datasets>>,
      <<wind_datasets, <<>>>> }

\* query_solar_sites(region_name, datasets, num_samples) and, from the same
\* state of the agent and of the generator and with the same behaviour of the
\* backend, query_solar_sites(region_name, other, num_samples): the first
\* call's outcome is kept as the call's, the second's beside it as its twin.
query_solar_sites_pair(region_name, datasets, other, num_samples, backend) ==
    /\ pc = "idle"
    /\ \E out \in {run_query(gee_available, rng, region_name, datasets,
                              num_samples, backend)},
          twin \in {run_query(gee_available, rng, region_name, other,
                              num_samples, backend)} :
          /\ pc' = "returned"
          /\ call' = [op |-> "query_solar_sites_pair", region_name |-> region_name,
                      datasets |-> datasets, other |-> other,
                      num_samples |-> num_samples, backend |-> backend]
          /\ trace' = out.trace
          /\ result' = [status |-> out.result.status, exc |-> out.result.exc,
                        sites |-> out.result.sites,
                        twin |-> [result |-> twin.result, path |-> twin.trace.path,
                                  rng |-> twin.rng]]
          /\ rng' = out.rng
    /\ UNCHANGED <<gee_available, probes>>

QueryPair ==
    /\ pc = "idle"
    /\ \E region_name \in PairRegions, num_samples \in SampleCounts :
          \E pair \in DatasetPairs :
              \E backend \in IF gee_available
                             THEN BackendOutcomes(num_samples)
                             ELSE {[kind |-> "raise_setup", exc |-> "EEException",
                                    features |-> <<>>]} :
                  query_solar_sites_pair(region_name, pair[1], pair[2],
                                         num_samples, backend)

NextDatasets == QueryPair \/ Respond

\* Requests that each make the same call with two datasets arguments.
SpecDatasets == Init /\ [][NextDatasets]_vars

\* ------------------------------------------------------------------ claims

\* A call of query_solar_sites has come back to its caller.
QueryDone == pc = "returned" /\ call.op = "query_solar_sites"

\* The call ran the synthetic generator (directly or as the fallback).
Synthetic == QueryDone /\ trace.mock_runs = 1

SiteFields == {"id", "lat", "lon", "location", "score", "irradiance", "slope", "metrics"}

\* Whether the backend behaviour b makes the try block raise: it raises
\* outright, or a feature of its answer holds a null property.
BackendFails(b) ==
    \/ b.kind # "features"
    \/ \E k \in 1..Len(b.features) :
          \E name \in DOMAIN b.features[k].properties :
              ~b.features[k].properties[name].num

\* C1: whatever the region argument (a string or None), the requested count
\* and the backend's state and behaviour, query_solar_sites returns a list of
\* site records; no exception reaches its caller.
NeverRaises_C1 ==
    QueryDone =>
        /\ result.status = "returned"
        /\ result.exc = "none"
        /\ DOMAIN result.sites = 1..Len(result.sites)
        /\ \A i \in 1..Len(result.sites) : SiteFields \subseteq DOMAIN result.sites[i]

\* The backend raised in getInfo() for an absent region and the caller still
\* got the full list.
Witness_C1 ==
    /\ QueryDone
    /\ gee_available
    /\ call.region_name = None
    /\ call.backend.kind = "raise_getInfo"
    /\ call.num_samples = MaxSamples
    /\ result.status = "returned"
    /\ Len(result.sites) = MaxSamples

\* C2: when the flag is set and the backend call raises at any point (set-up,
\* getInfo, building the records), the result is the synthetic list of exactly
\* num_samples records: never a partly built backend list, never an empty
\* list for num_samples > 0.
FallbackComplete_C2 ==
    (QueryDone /\ gee_available /\ BackendFails(call.backend)) =>
        /\ result.status = "returned"
        /\ trace.mock_runs = 1
        /\ Len(result.sites) = call.num_samples
        /\ \A i \in 1..Len(result.sites) :
              "land_cover" \in DOMAIN result.sites[i].metrics

\* The second of two features could not be read; the caller got two
\* synthetic records.
Witness_C2 ==
    /\ QueryDone
    /\ gee_available
    /\ call.backend.kind = "features"
    /\ Len(call.backend.features) = 2
    /\ ~BackendFails([call.backend EXCEPT !.features = SubSeq(@, 1, 1)])
    /\ BackendFails(call.backend)
    /\ call.num_samples = 2
    /\ Len(result.sites) = 2
    /\ trace.path = "fallback"

\* C3: every record query_solar_sites returns, on the synthetic and on the
\* backend path and whatever properties the backend's features hold, has
\* 0 <= score <= 100 and slope >= 0.
ScoreAndSlopeRange_C3 ==
    QueryDone =>
        \A i \in 1..Len(result.sites) :
            /\ 0 <= result.sites[i].score
            /\ result.sites[i].score <= 100
            /\ result.sites[i].slope >= 0

\* C4: on the synthetic path every record has irradiance in [4.5, 8.0],
\* slope in [0, 15] and score in [50, 100], whatever the region and the draws.
SyntheticRanges_C4 ==
    Synthetic =>
        \A i \in 1..Len(result.sites) :
            /\ F(4, 50) <= result.sites[i].irradiance
            /\ result.sites[i].irradiance <= F(8, 0)
            /\ 0 <= result.sites[i].slope
            /\ result.sites[i].slope <= F(15, 0)
            /\ 50 <= result.sites[i].score
            /\ result.sites[i].score <= 100

\* A synthetic list in which the clamps have acted: a record at the ceiling
\* of the irradiance, one at the ceiling of the slope, one at score 50 and
\* one at score 100.
Witness_C4 ==
    /\ Synthetic
    /\ \E i \in 1..Len(result.sites) : result.sites[i].irradiance = F(8, 0)
    /\ \E i \in 1..Len(result.sites) : result.sites[i].slope = F(15, 0)
    /\ \E i \in 1..Len(result.sites) : result.sites[i].score = 50
    /\ \E i \in 1..Len(result.sites) : result.sites[i].score = 100

\* C5: the list query_solar_sites returns is sorted by score, non-increasing,
\* on every path: each record scores at least as much as the one after it.
SortedByScore_C5 ==
    (QueryDone /\ result.status = "returned") =>
        \A i \in 1..(Len(result.sites) - 1) :
            result.sites[i].score >= result.sites[i + 1].score

\* The fallback generated a second record scoring more than the first, and
\* the returned list has it in front.
Witness_C5 ==
    /\ QueryDone
    /\ trace.path = "fallback"
    /\ Len(result.sites) = 2
    /\ result.sites[1].id = 2
    /\ result.sites[1].score > result.sites[2].score

\* C6: the synthetic generator asked for N >= 0 records returns exactly N,
\* the empty list for N = 0; on the backend path the list has as many records
\* as the backend returned features.
RecordCount_C6 ==
    (QueryDone /\ result.status = "returned") =>
        /\ trace.mock_runs = 1 => Len(result.sites) = call.num_samples
        /\ trace.path = "backend" => Len(result.sites) = Len(call.backend.features)

\* A synthetic request for no record at all came back with the empty list.
Witness_C6 ==
    /\ QueryDone
    /\ trace.path = "mock"
    /\ call.num_samples = 0
    /\ result.status = "returned"
    /\ result.sites = <<>>

\* The ids of the returned records, read in the order of the list.
ReturnedIds == [i \in 1..Len(result.sites) |-> result.sites[i].id]

\* C7 as stated: synthetic sampling with requested_count = N yields records
\* whose ids, read in the order of the returned list, are 1, 2, ..., N.
IdsInListOrder_C7 ==
    Synthetic => \A i \in 1..Len(result.sites) : ReturnedIds[i] = i

\* C7 amended: synthetic sampling with requested_count = N yields N records
\* whose ids are 1..N, each once, numbered in the order of generation; the
\* returned list is ordered by score, so the ids increase along it only among
\* records of equal score.
IdsNumberGeneration_C7 ==
    Synthetic =>
        /\ Len(result.sites) = call.num_samples
        /\ {ReturnedIds[i] : i \in 1..Len(result.sites)} = 1..call.num_samples
        /\ \A i, j \in 1..Len(result.sites) :
              (i < j /\ result.sites[i].score = result.sites[j].score)
                  => ReturnedIds[i] < ReturnedIds[j]

\* The record generated second outscored the first and is returned in front.
Witness_C7 ==
    /\ Synthetic
    /\ call.num_samples = 2
    /\ ReturnedIds = <<2, 1>>
    /\ result.sites[1].score > result.sites[2].score

\* The key each region argument of RegionInputs stands for once trimmed and
\* lowercased, written out by hand; texas for every argument that names none
\* of the seven regions.
ExpectedKey ==
    [r \in RegionInputs |->
        CASE r = <<"T","e","x","a","s">>                     -> texas
          [] r = <<" ","C","o","l","o","r","a","d","o"," ">> -> colorado
          [] r = <<"U","T","A","H","\n">>                    -> utah
          [] r = <<"N","e","w"," ","M","e","x","i","c","o">> -> new_mexico
          [] r = <<"c","a","l","i","f","o","r","n","i","a">> -> california
          [] r = <<"N","e","v","a","d","a">>                 -> nevada
          [] r = <<"A","R","I","Z","O","N","A">>             -> arizona
          [] OTHER                                           -> texas]

\* C8: region resolution trims and lowercases its argument; one of the seven
\* known names gives that region's descriptor, every other argument (unknown,
\* empty, whitespace, None) exactly the Texas one, in get_region_geometry and
\* in the lookup of the synthetic generator alike.
RegionResolution_C8 ==
    pc = "returned" =>
        /\ trace.region # NoRegion =>
              trace.region = region_bounds(gee_available)[ExpectedKey[call.region_name]]
        /\ trace.region_info # NoRegion =>
              trace.region_info = region_data[ExpectedKey[call.region_name]]

\* A query for 'Unknownistan' resolved the Texas rectangle, the backend
\* failed, and the fallback generated from the Texas entry of region_data.
Witness_C8 ==
    /\ QueryDone
    /\ trace.path = "fallback"
    /\ call.region_name = <<"U","n","k","n","o","w","n","i","s","t","a","n">>
    /\ trace.region = Rectangle(-F(107, 0), F(25, 80), -F(93, 50), F(36, 50))
    /\ trace.region_info.irr_base = F(6, 20)
    /\ trace.region_info.slope_avg = F(2, 0)
    /\ Len(result.sites) = MaxSamples

\* The scores of the returned records, as a set.
ScoreSet == {result.sites[i].score : i \in 1..Len(result.sites)}

ProbedOnce_C10 ==
    /\ [](probes = 1)
    /\ [][gee_available' = gee_available /\ probes' = probes]_vars
    /\ []((QueryDone /\ ~gee_available) =>
            /\ trace.backend_attempts = 0
            /\ trace.mock_runs = 1
            /\ trace.path = "mock"
            /\ result.status = "returned")

\* The probe failed and a later query for MaxSamples records was served by
\* the synthetic generator alone.
Witness_C10 ==
    /\ ~gee_available
    /\ probes = 1
    /\ QueryDone
    /\ trace.backend_attempts = 0
    /\ trace.path = "mock"
    /\ call.num_samples = MaxSamples
    /\ Len(result.sites) = MaxSamples

\* C11: a query_solar_sites call with the flag true attempts the backend at
\* most once (exactly once); when the attempt fails the synthetic generator
\* runs exactly once in that call, and when it succeeds not at all.  The call
\* leaves the flag as it was, so the call after it attempts the backend again.
SingleAttempt_C11 ==
    /\ []((QueryDone /\ gee_available) =>
            /\ trace.backend_attempts = 1
            /\ BackendFails(call.backend) =>
                  (trace.mock_runs = 1 /\ trace.path = "fallback")
            /\ ~BackendFails(call.backend) =>
                  (trace.mock_runs = 0 /\ trace.path = "backend"))
    /\ [][(call'.op = "query_solar_sites" /\ pc' = "returned")
             => gee_available' = gee_available]_vars
    /\ [][(pc = "idle" /\ gee_available /\ call'.op = "query_solar_sites")
             => trace'.backend_attempts = 1]_vars

\* A call whose backend attempt failed in getInfo(): one attempt, one run of
\* the generator, the flag still true.
Witness_C11 ==
    /\ QueryDone
    /\ gee_available
    /\ call.backend.kind = "raise_getInfo"
    /\ trace.backend_attempts = 1
    /\ trace.mock_runs = 1
    /\ trace.path = "fallback"
    /\ Len(result.sites) = call.num_samples
    /\ call.num_samples > 0

\* x (units of 10^-5) rounded to the nearest integer.
Nearest(x) == RoundTo(x, One) \div One

\* C12: the final score is clamp(round(raw), 0, 100), the raw value rounded
\* to the nearest integer: raw = irradiance * 5 + (45 - slope) plus the noise
\* and with the floor of 50 on the synthetic path, raw = the backend's score
\* on the backend path.
RoundedScore_C12 ==
    /\ call.op = "mock_score" =>
          result.score =
              Max(50, Min(100, Max(0,
                  Nearest(call.irradiance * 5 + (F(45, 0) - call.slope) + call.noise))))
    /\ call.op = "backend_score" =>
          result.score = Min(100, Max(0, Nearest(call.raw_score)))

\* The score the formula gives for the readings of a record, clamped to
\* [0, 100] (units of 10^-5).
FormulaScore(site) ==
    Max(0, Min(F(100, 0), site.irradiance * 5 + (F(45, 0) - site.slope)))

\* C13: on the backend path the score of a record is a function of that
\* record's irradiance and slope: records with equal irradiance and equal
\* slope have equal score, and the score is irradiance * 5 + (45 - slope)
\* clamped to [0, 100] (as an integer, truncated or rounded), also when
\* properties are missing in the feature and the defaults are used.
BackendScoreFromReadings_C13 ==
    (QueryDone /\ trace.path = "backend") =>
        /\ \A i \in 1..Len(result.sites) :
              result.sites[i].score \in {PyInt(FormulaScore(result.sites[i])),
                                         Nearest(FormulaScore(result.sites[i]))}
        /\ \A i, j \in 1..Len(result.sites) :
              (/\ result.sites[i].irradiance = result.sites[j].irradiance
               /\ result.sites[i].slope = result.sites[j].slope)
                  => result.sites[i].score = result.sites[j].score

\* The fallback descriptor (center and size) of the region a call names.
FallbackDescriptor == region_bounds(FALSE)[ExpectedKey[call.region_name]]

\* C14: on the synthetic path every generated point lies within
\* center +- size/2 of its region's fallback descriptor in latitude and in
\* longitude, for the regions of size 4 (colorado, utah) as for those of
\* size 5.
WithinExtent_C14 ==
    Synthetic =>
        \A i \in 1..Len(result.sites) :
            /\ 2 * Abs(result.sites[i].lat - FallbackDescriptor.center[1])
                  <= FallbackDescriptor.size * One
            /\ 2 * Abs(result.sites[i].lon - FallbackDescriptor.center[2])
                  <= FallbackDescriptor.size * One

\* C15: ranking is a stable descending sort: of two returned records with
\* equal score the one generated first, the one with the smaller id, comes
\* first, on both paths.
StableRanking_C15 ==
    (QueryDone /\ result.status = "returned") =>
        \A i, j \in 1..Len(result.sites) :
            (i < j /\ result.sites[i].score = result.sites[j].score)
                => result.sites[i].id < result.sites[j].id

\* Two synthetic records at different places tie on the score and are
\* returned in the order they were generated.
Witness_C15 ==
    /\ Synthetic
    /\ Len(result.sites) = 2
    /\ result.sites[1].score = result.sites[2].score
    /\ result.sites[1].lat # result.sites[2].lat
    /\ result.sites[1].id = 1
    /\ result.sites[2].id = 2

\* C16: ranking neither drops, duplicates nor renumbers records: the ids of a
\* returned list of length K are pairwise different and are exactly 1..K.
IdsArePermutation_C16 ==
    (QueryDone /\ result.status = "returned") =>
        /\ \A i, j \in 1..Len(result.sites) :
              i # j => result.sites[i].id # result.sites[j].id
        /\ {result.sites[i].id : i \in 1..Len(result.sites)} = 1..Len(result.sites)

\* The backend's second feature outscored its first: the list comes back
\* reordered, each record with the id it was given.
Witness_C16 ==
    /\ QueryDone
    /\ trace.path = "backend"
    /\ Len(result.sites) = 2
    /\ result.sites[1].id = 2
    /\ result.sites[2].id = 1
    /\ result.sites[1].score > result.sites[2].score
    /\ result.sites[1].lat =
          Round(call.backend.features[2].geometry.coordinates[2], 4)

\* A pair of query_solar_sites calls differing only in datasets has returned.
PairDone == pc = "returned" /\ call.op = "query_solar_sites_pair"

PreNoise == call.irradiance * 5 + (F(45, 0) - call.slope)

\* C18: in the synthetic scorer the clamp to [0, 100] before the noise never
\* acts: for irradiance in [4.5, 8.0] and slope in [0, 15] the value before
\* the noise lies in [52.5, 85], and the score is the one obtained by adding
\* the noise to the unclamped value and clamping once, at the end.
PreNoiseClampIdle_C18 ==
    (pc = "returned" /\ call.op = "mock_score") =>
        /\ F(52, 50) <= PreNoise
        /\ PreNoise <= F(85, 0)
        /\ result.score = PyInt(Max(F(50, 0), Min(F(100, 0), PreNoise + call.noise)))

\* The site with the highest value before the noise, 85 for irradiance 8.0
\* and slope 0, scored with a positive noise draw: 100 after the last clamp.
Witness_C18 ==
    /\ pc = "returned"
    /\ call.op = "mock_score"
    /\ call.irradiance = F(8, 0)
    /\ call.slope = 0
    /\ PreNoise = F(85, 0)
    /\ call.noise > F(15, 0)
    /\ result.score = 100

====
